---- MODULE Spec2Model ----
(***************************************************************************)
(* SimpleDynamicExitPlanner: the strategy-validation and synthesis         *)
(* pipeline (parseExitStrategies, validateReasoning) over the exit-point   *)
(* store (exitPoints, addExitPoint).                                       *)
(*                                                                         *)
(* Representation.  A JavaScript string is a sequence of one-character     *)
(* strings, so that trim, toLowerCase, includes and === are computed on    *)
(* the characters.  A number is an integer in fixed point: a confidence    *)
(* is in ten-thousandths (0.85 is 8500, 1.0001 is 10001), a distance in    *)
(* tenths of a mile (1.2 is 12).  A decoded JSON value is a record         *)
(* [t, s, n]: its typeof, its characters when a string, its value when a   *)
(* number.  The exitPoints Map is the sequence of its entries in insertion *)
(* order; activeHikes and userProfiles, of which only has, get, set and    *)
(* delete are used, are functions from the keys present.                   *)
(*                                                                         *)
(* Spec and SpecConfidence run parseExitStrategies over response texts;    *)
(* SpecPlanner runs the planner with a getExitStrategies call that awaits  *)
(* the LLM while the other calls go on; SpecHikes runs startHike,          *)
(* updateLocation, endHike and learnFromUserFeedback for two users with    *)
(* any ActiveHike object handed in.                                        *)
(***************************************************************************)
EXTENDS Integers, Sequences, FiniteSets, TLC

VARIABLES exitPoints, activeHikes, userProfiles, added, pc, hike, prompt,
          llmCalls, responseText, source, result, last

vars ==
  <<exitPoints, activeHikes, userProfiles, added, pc, hike, prompt,
    llmCalls, responseText, source, result, last>>

----------------------------------------------------------------------------
(* Texts *)

\* "Bear Brook Trail"
BearBrookTrail ==
  <<"B","e","a","r"," ","B","r","o","o","k"," ","T","r","a","i","l">>

\* "North Trailhead"
NorthTrailhead ==
  <<"N","o","r","t","h"," ","T","r","a","i","l","h","e","a","d">>

\* "Emergency Shelter"
EmergencyShelter ==
  <<"E","m","e","r","g","e","n","c","y"," ","S","h","e","l","t","e","r">>

\* "Ridge Cutoff"
RidgeCutoff ==
  <<"R","i","d","g","e"," ","C","u","t","o","f","f">>

\* "Saddle Spur"
SaddleSpur ==
  <<"S","a","d","d","l","e"," ","S","p","u","r">>

\* "bear brook trail"
LowerBearBrook ==
  <<"b","e","a","r"," ","b","r","o","o","k"," ","t","r","a","i","l">>

\* "  "
BlankText ==
  <<" "," ">>

\* "Steady descent"
SteadyDescent ==
  <<"S","t","e","a","d","y"," ","d","e","s","c","e","n","t">>

\* "This is a close and easy exit given current pace."
CloseAndEasy ==
  <<"T","h","i","s"," ","i","s"," ","a"," ","c","l","o","s","e"," ","a","n","d"," ","e","a","s","y"," ","e","x","i","t"," ","g","i","v","e","n"," ","c","u","r","r","e","n","t"," ","p","a","c","e",".">>

\* "This difficult route is far from here"
DifficultFar ==
  <<"T","h","i","s"," ","d","i","f","f","i","c","u","l","t"," ","r","o","u","t","e"," ","i","s"," ","f","a","r"," ","f","r","o","m"," ","h","e","r","e">>

\* "Not EASY"
NotEasy ==
  <<"N","o","t"," ","E","A","S","Y">>

\* "Difficult"
Difficult ==
  <<"D","i","f","f","i","c","u","l","t">>

\* "Close by"
CloseBy ==
  <<"C","l","o","s","e"," ","b","y">>

\* "Farther"
Farther ==
  <<"F","a","r","t","h","e","r">>

\* "Good weather"
GoodWeather ==
  <<"G","o","o","d"," ","w","e","a","t","h","e","r">>

\* "beginner"
Beginner ==
  <<"b","e","g","i","n","n","e","r">>

\* "easy"
kwEasy ==
  <<"e","a","s","y">>

\* "difficult"
kwDifficult ==
  <<"d","i","f","f","i","c","u","l","t">>

\* "close"
kwClose ==
  <<"c","l","o","s","e">>

\* "far"
kwFar ==
  <<"f","a","r">>

\* "good weather"
kwGoodWeather ==
  <<"g","o","o","d"," ","w","e","a","t","h","e","r">>

\* "beginner"
kwBeginner ==
  <<"b","e","g","i","n","n","e","r">>

UpperChars ==
  <<"A","B","C","D","E","F","G","H","I","J","K","L","M","N","O","P","Q","R","S","T","U","V","W","X","Y","Z">>

LowerChars ==
  <<"a","b","c","d","e","f","g","h","i","j","k","l","m","n","o","p","q","r","s","t","u","v","w","x","y","z">>

----------------------------------------------------------------------------
(* String.prototype.trim, toLowerCase, includes *)

IsSpace(c) == c \in {" ", "\t", "\n"}

RECURSIVE TrimStart(_)
TrimStart(s) ==
  IF s # <<>> /\ IsSpace(Head(s)) THEN TrimStart(Tail(s)) ELSE s

RECURSIVE TrimEnd(_)
TrimEnd(s) ==
  IF s # <<>> /\ IsSpace(s[Len(s)]) THEN TrimEnd(SubSeq(s, 1, Len(s) - 1)) ELSE s

Trim(s) == TrimEnd(TrimStart(s))

\* The lower-case letter of each upper-case letter.
LowerOf ==
  [c \in { UpperChars[i] : i \in 1..Len(UpperChars) } |->
     LowerChars[CHOOSE i \in 1..Len(UpperChars) : UpperChars[i] = c]]

LowerChar(c) == IF c \in DOMAIN LowerOf THEN LowerOf[c] ELSE c

ToLowerCase(s) == [i \in 1..Len(s) |-> LowerChar(s[i])]

\* p is never empty here: the search strings are the six literals.
Includes(s, p) ==
  \E i \in 1..(Len(s) - Len(p) + 1) :
    s[i] = p[1] /\ SubSeq(s, i, i + Len(p) - 1) = p

----------------------------------------------------------------------------
(* Decoded JSON values and raw candidates *)

Undefined == [t |-> "undefined", s |-> <<>>, n |-> 0]
Str(s) == [t |-> "string", s |-> s, n |-> 0]
Num(n) == [t |-> "number", s |-> <<>>, n |-> n]

\* An entry of response.strategies: typeof, whether it is null, and the three
\* properties the loop destructures and reads.
RawObject(name, confidence, reasoning) ==
  [t |-> "object", isNull |-> FALSE, exitPointName |-> name,
   confidence |-> confidence, reasoning |-> reasoning]

RawNull ==
  [t |-> "object", isNull |-> TRUE, exitPointName |-> Undefined,
   confidence |-> Undefined, reasoning |-> Undefined]

RawPrimitive ==
  [t |-> "number", isNull |-> FALSE, exitPointName |-> Undefined,
   confidence |-> Undefined, reasoning |-> Undefined]

----------------------------------------------------------------------------
(* The exit-point store: Map<string, ExitPoint> in insertion order *)

ExitPoint(id, name, accessibility, distance) ==
  [id |-> id, name |-> name, accessibility |-> accessibility,
   distanceFromCurrent |-> distance]

initializeExitPoints ==
  << ExitPoint("exit1", BearBrookTrail, "easy", 12),
     ExitPoint("exit2", NorthTrailhead, "moderate", 21),
     ExitPoint("exit3", EmergencyShelter, "difficult", 8) >>

\* Map.prototype.set: an existing key keeps its position and takes the new
\* value, a new key is appended.
MapSet(m, e) ==
  IF \E i \in 1..Len(m) : m[i].id = e.id
  THEN [i \in 1..Len(m) |-> IF m[i].id = e.id THEN e ELSE m[i]]
  ELSE Append(m, e)

\* Mutation of Find: the names are compared without regard to case.
FindIgnoringCase(eps, name) ==
  LET hits == SelectSeq(eps, LAMBDA ep : ToLowerCase(ep.name) = ToLowerCase(name))
  IN  IF hits = <<>> THEN <<>> ELSE <<Head(hits)>>

\* Array.from(this.exitPoints.values()).find(ep => ep.name === exitPointName):
\* the first exit point of that name in insertion order, as <<ep>>, or <<>>
\* for undefined.
Find(eps, name) ==
  LET hits == SelectSeq(eps, LAMBDA ep : ep.name = name)
  IN  IF hits = <<>> THEN <<>> ELSE <<Head(hits)>>

----------------------------------------------------------------------------
(* Thresholds of the validators *)

\* confidence > 1
One == 10000

\* confidence > 0.95
HighConfidence == 9500

\* avgConfidence < 0.3
LowAverage == 3000

\* distanceFromCurrent > 2
CloseMiles == 20

\* distanceFromCurrent < 1
FarMiles == 10

\* Date.now() + 2 * 60 * 60 * 1000
TwoHoursMs == 7200000

----------------------------------------------------------------------------
(* validateReasoning *)

\* Mutation of validateReasoning: "close" is contradicted from 2 miles on
\* (>= for >).
validateReasoningCloseAt2(reasoning, exitPoint, hk) ==
  LET reasoningLower == ToLowerCase(reasoning)
      i1 == IF Includes(reasoningLower, kwEasy) /\ exitPoint.accessibility = "difficult"
            THEN <<"easy_but_difficult">> ELSE <<>>
      i2 == IF Includes(reasoningLower, kwDifficult) /\ exitPoint.accessibility = "easy"
            THEN <<"difficult_but_easy">> ELSE <<>>
      i3 == IF Includes(reasoningLower, kwClose) /\ exitPoint.distanceFromCurrent >= CloseMiles
            THEN <<"close_but_over_2_miles">> ELSE <<>>
      i4 == IF Includes(reasoningLower, kwFar) /\ exitPoint.distanceFromCurrent < FarMiles
            THEN <<"far_but_under_1_mile">> ELSE <<>>
      i5 == IF Includes(reasoningLower, kwGoodWeather) /\ hk.route.difficulty = "expert"
            THEN <<"good_weather_on_expert">> ELSE <<>>
      i6 == IF Includes(reasoningLower, kwBeginner) /\ hk.route.difficulty = "expert"
            THEN <<"beginner_on_expert">> ELSE <<>>
  IN  i1 \o i2 \o i3 \o i4 \o i5 \o i6

\* Mutation of validateReasoning: "far" is contradicted under 2 miles, the
\* threshold of "close".
validateReasoningFarUnder2(reasoning, exitPoint, hk) ==
  LET reasoningLower == ToLowerCase(reasoning)
      i1 == IF Includes(reasoningLower, kwEasy) /\ exitPoint.accessibility = "difficult"
            THEN <<"easy_but_difficult">> ELSE <<>>
      i2 == IF Includes(reasoningLower, kwDifficult) /\ exitPoint.accessibility = "easy"
            THEN <<"difficult_but_easy">> ELSE <<>>
      i3 == IF Includes(reasoningLower, kwClose) /\ exitPoint.distanceFromCurrent > CloseMiles
            THEN <<"close_but_over_2_miles">> ELSE <<>>
      i4 == IF Includes(reasoningLower, kwFar) /\ exitPoint.distanceFromCurrent < CloseMiles
            THEN <<"far_but_under_1_mile">> ELSE <<>>
      i5 == IF Includes(reasoningLower, kwGoodWeather) /\ hk.route.difficulty = "expert"
            THEN <<"good_weather_on_expert">> ELSE <<>>
      i6 == IF Includes(reasoningLower, kwBeginner) /\ hk.route.difficulty = "expert"
            THEN <<"beginner_on_expert">> ELSE <<>>
  IN  i1 \o i2 \o i3 \o i4 \o i5 \o i6

validateReasoning(reasoning, exitPoint, hk) ==
  LET reasoningLower == ToLowerCase(reasoning)
      i1 == IF Includes(reasoningLower, kwEasy) /\ exitPoint.accessibility = "difficult"
            THEN <<"easy_but_difficult">> ELSE <<>>
      i2 == IF Includes(reasoningLower, kwDifficult) /\ exitPoint.accessibility = "easy"
            THEN <<"difficult_but_easy">> ELSE <<>>
      i3 == IF Includes(reasoningLower, kwClose) /\ exitPoint.distanceFromCurrent > CloseMiles
            THEN <<"close_but_over_2_miles">> ELSE <<>>
      i4 == IF Includes(reasoningLower, kwFar) /\ exitPoint.distanceFromCurrent < FarMiles
            THEN <<"far_but_under_1_mile">> ELSE <<>>
      i5 == IF Includes(reasoningLower, kwGoodWeather) /\ hk.route.difficulty = "expert"
            THEN <<"good_weather_on_expert">> ELSE <<>>
      i6 == IF Includes(reasoningLower, kwBeginner) /\ hk.route.difficulty = "expert"
            THEN <<"beginner_on_expert">> ELSE <<>>
  IN  i1 \o i2 \o i3 \o i4 \o i5 \o i6

----------------------------------------------------------------------------
(* parseExitStrategies *)

\* An entry of the local issues array: the message template, the exit-point
\* name and confidence it interpolates, and the joined reasoning issues.
Issue(kind, name, detail, confidence) ==
  [kind |-> kind, name |-> name, detail |-> detail, confidence |-> confidence]

\* `strategy_${Date.now()}_${Math.random()}`: the clock reading and the k-th
\* draw of the generator.
StrategyId(src, k) == [now |-> src.now, random |-> <<src.seed, k>>]

\* typeof rawStrategy !== 'object' || rawStrategy === null
NotAnObject(rawStrategy) == rawStrategy.t # "object" \/ rawStrategy.isNull

\* typeof exitPointName !== 'string' || exitPointName.trim().length === 0
MissingName(exitPointName) ==
  exitPointName.t # "string" \/ Len(Trim(exitPointName.s)) = 0

\* Mutation of InvalidConfidence: 1 itself is out of range (>= for >).
InvalidConfidenceAt1(confidence) ==
  confidence.t # "number" \/ confidence.n < 0 \/ confidence.n >= One

\* typeof confidence !== 'number' || confidence < 0 || confidence > 1
InvalidConfidence(confidence) ==
  confidence.t # "number" \/ confidence.n < 0 \/ confidence.n > One

\* Mutation of MissingReasoning: the length is taken without trim().
MissingReasoningNoTrim(reasoning) ==
  reasoning.t # "string" \/ Len(reasoning.s) = 0

\* typeof reasoning !== 'string' || reasoning.trim().length === 0
MissingReasoning(reasoning) ==
  reasoning.t # "string" \/ Len(Trim(reasoning.s)) = 0

\* Mutation of IsDuplicate: the duplicate check never finds an earlier strategy.
IsDuplicateNever(validatedStrategies, exitPoint) == FALSE

\* validatedStrategies.find(s => s.strategy.exitPoint.id === exitPoint.id)
IsDuplicate(validatedStrategies, exitPoint) ==
  \E i \in 1..Len(validatedStrategies) :
    validatedStrategies[i].strategy.exitPoint.id = exitPoint.id

\* Mutation of UnrealisticConfidence: 0.95 itself is flagged (>= for >).
UnrealisticConfidenceAt95(confidence) == confidence.n >= HighConfidence

\* VALIDATOR 2: confidence > 0.95
UnrealisticConfidence(confidence) == confidence.n > HighConfidence

\* Mutation of Iteration: the confidence range is checked before the exit
\* point is looked up.
IterationConfidenceFirst(rawStrategy, eps, hk, src, validatedStrategies) ==
  LET exitPointName == rawStrategy.exitPointName
      confidence == rawStrategy.confidence
      reasoning == rawStrategy.reasoning
      Reject(issue) == [pushed |-> <<issue>>, strategy |-> <<>>]
  IN
  IF NotAnObject(rawStrategy)
  THEN Reject(Issue("not_an_object", <<>>, <<>>, 0))
  ELSE IF MissingName(exitPointName)
  THEN Reject(Issue("missing_exit_point_name", <<>>, <<>>, 0))
  ELSE IF InvalidConfidence(confidence)
  THEN Reject(Issue("invalid_confidence", exitPointName.s, <<>>, 0))
  ELSE IF Find(eps, exitPointName.s) = <<>>
  THEN Reject(Issue("exit_point_not_found", exitPointName.s, <<>>, 0))
  ELSE IF MissingReasoning(reasoning)
  THEN Reject(Issue("missing_reasoning", exitPointName.s, <<>>, 0))
  ELSE
    LET exitPoint == Find(eps, exitPointName.s)[1]
        reasoningIssues == validateReasoning(reasoning.s, exitPoint, hk)
        high == IF UnrealisticConfidence(confidence)
                THEN <<Issue("unrealistic_confidence", exitPointName.s, <<>>, confidence.n)>>
                ELSE <<>>
        strategy ==
          [id |-> StrategyId(src, Len(validatedStrategies)),
           exitPoint |-> exitPoint,
           estimatedArrivalTime |-> src.now + TwoHoursMs,
           confidenceScore |-> confidence.n,
           reasoning |-> reasoning.s]
    IN
    IF Len(reasoningIssues) > 0
    THEN Reject(Issue("logical_issues", exitPointName.s, reasoningIssues, 0))
    ELSE IF IsDuplicate(validatedStrategies, exitPoint)
    THEN [pushed |-> high \o <<Issue("duplicate_exit_point", exitPointName.s, <<>>, 0)>>,
          strategy |-> <<>>]
    ELSE [pushed |-> high, strategy |-> <<strategy>>]

\* One pass of the loop body over rawStrategy: the issues it pushes and the
\* strategy it pushes, if any.
Iteration(rawStrategy, eps, hk, src, validatedStrategies) ==
  LET exitPointName == rawStrategy.exitPointName
      confidence == rawStrategy.confidence
      reasoning == rawStrategy.reasoning
      Reject(issue) == [pushed |-> <<issue>>, strategy |-> <<>>]
  IN
  IF NotAnObject(rawStrategy)
  THEN Reject(Issue("not_an_object", <<>>, <<>>, 0))
  ELSE IF MissingName(exitPointName)
  THEN Reject(Issue("missing_exit_point_name", <<>>, <<>>, 0))
  ELSE IF Find(eps, exitPointName.s) = <<>>
  THEN Reject(Issue("exit_point_not_found", exitPointName.s, <<>>, 0))
  ELSE IF InvalidConfidence(confidence)
  THEN Reject(Issue("invalid_confidence", exitPointName.s, <<>>, 0))
  ELSE IF MissingReasoning(reasoning)
  THEN Reject(Issue("missing_reasoning", exitPointName.s, <<>>, 0))
  ELSE
    LET exitPoint == Find(eps, exitPointName.s)[1]
        reasoningIssues == validateReasoning(reasoning.s, exitPoint, hk)
        high == IF UnrealisticConfidence(confidence)
                THEN <<Issue("unrealistic_confidence", exitPointName.s, <<>>, confidence.n)>>
                ELSE <<>>
        duplicateStrategy == IsDuplicate(validatedStrategies, exitPoint)
        strategy ==
          [id |-> StrategyId(src, Len(validatedStrategies)),
           exitPoint |-> exitPoint,
           estimatedArrivalTime |-> src.now + TwoHoursMs,
           confidenceScore |-> confidence.n,
           reasoning |-> reasoning.s]
    IN
    IF Len(reasoningIssues) > 0
    THEN Reject(Issue("logical_issues", exitPointName.s, reasoningIssues, 0))
    ELSE IF duplicateStrategy
    THEN [pushed |-> high \o <<Issue("duplicate_exit_point", exitPointName.s, <<>>, 0)>>,
          strategy |-> <<>>]
    ELSE [pushed |-> high, strategy |-> <<strategy>>]

\* The state of the loop: the three local arrays, and per candidate what its
\* pass pushed (log, kept for the properties).
EmptyLoop ==
  [strategies |-> <<>>, issues |-> <<>>, validatedStrategies |-> <<>>, log |-> <<>>]

\* Mutation of Loop: a rejected candidate ends the loop (break for continue).
RECURSIVE LoopBreaks(_, _, _, _, _)
LoopBreaks(raws, eps, hk, src, acc) ==
  IF raws = <<>> THEN acc
  ELSE
    LET it == Iteration(Head(raws), eps, hk, src, acc.validatedStrategies)
        next ==
          [strategies |-> acc.strategies \o it.strategy,
           issues |-> acc.issues \o it.pushed,
           validatedStrategies |-> acc.validatedStrategies \o
             [i \in 1..Len(it.strategy) |->
                [strategy |-> it.strategy[i], confidence |-> it.strategy[i].confidenceScore]],
           log |-> Append(acc.log, it)]
    IN IF it.strategy = <<>> THEN next ELSE LoopBreaks(Tail(raws), eps, hk, src, next)

\* Mutation of Loop: an accepted strategy goes to the front of the list
\* (unshift for push).
RECURSIVE LoopUnshifts(_, _, _, _, _)
LoopUnshifts(raws, eps, hk, src, acc) ==
  IF raws = <<>> THEN acc
  ELSE
    LET it == Iteration(Head(raws), eps, hk, src, acc.validatedStrategies)
        next ==
          [strategies |-> it.strategy \o acc.strategies,
           issues |-> acc.issues \o it.pushed,
           validatedStrategies |-> acc.validatedStrategies \o
             [i \in 1..Len(it.strategy) |->
                [strategy |-> it.strategy[i], confidence |-> it.strategy[i].confidenceScore]],
           log |-> Append(acc.log, it)]
    IN LoopUnshifts(Tail(raws), eps, hk, src, next)

\* Mutation of Loop: the first pass runs before the latest addExitPoint has
\* taken effect, the later passes after it.
RECURSIVE LoopAcrossAnAdd(_, _, _, _, _)
LoopAcrossAnAdd(raws, eps, hk, src, acc) ==
  IF raws = <<>> THEN acc
  ELSE
    LET seen == IF acc.log = <<>> THEN SubSeq(eps, 1, Len(eps) - 1) ELSE eps
        it == Iteration(Head(raws), seen, hk, src, acc.validatedStrategies)
        next ==
          [strategies |-> acc.strategies \o it.strategy,
           issues |-> acc.issues \o it.pushed,
           validatedStrategies |-> acc.validatedStrategies \o
             [i \in 1..Len(it.strategy) |->
                [strategy |-> it.strategy[i], confidence |-> it.strategy[i].confidenceScore]],
           log |-> Append(acc.log, it)]
    IN LoopAcrossAnAdd(Tail(raws), eps, hk, src, next)

\* for (const rawStrategy of response.strategies): the passes in order, each
\* pushing onto the three local arrays.
RECURSIVE Loop(_, _, _, _, _)
Loop(raws, eps, hk, src, acc) ==
  IF raws = <<>> THEN acc
  ELSE
    LET it == Iteration(Head(raws), eps, hk, src, acc.validatedStrategies)
        next ==
          [strategies |-> acc.strategies \o it.strategy,
           issues |-> acc.issues \o it.pushed,
           validatedStrategies |-> acc.validatedStrategies \o
             [i \in 1..Len(it.strategy) |->
                [strategy |-> it.strategy[i], confidence |-> it.strategy[i].confidenceScore]],
           log |-> Append(acc.log, it)]
    IN Loop(Tail(raws), eps, hk, src, next)

RECURSIVE SumConfidence(_)
SumConfidence(strategies) ==
  IF strategies = <<>> THEN 0
  ELSE Head(strategies).confidenceScore + SumConfidence(Tail(strategies))

\* A response text: its characters in classes (text), and the entries of the
\* strategies array that the class "S" stands for.
\*   "ws"  whitespace            "txt" prose without braces
\*   "{"   an opening brace      "}"   a closing brace
\*   "S"   "strategies": [...]   "O"   members without a strategies array
\*   "G"   characters that are no JSON members
RECURSIVE TrimStartWs(_)
TrimStartWs(text) ==
  IF text # <<>> /\ Head(text) = "ws" THEN TrimStartWs(Tail(text)) ELSE text

RECURSIVE TrimEndWs(_)
TrimEndWs(text) ==
  IF text # <<>> /\ text[Len(text)] = "ws"
  THEN TrimEndWs(SubSeq(text, 1, Len(text) - 1)) ELSE text

StartsWithBrace(text) == text # <<>> /\ Head(text) = "{"

\* responseText.match(/\{[\s\S]*\}/): from the first opening brace that has a
\* closing brace after it to the last closing brace.
HasJsonMatch(text) ==
  \E f, l \in 1..Len(text) : f < l /\ text[f] = "{" /\ text[l] = "}"

JsonMatch(text) ==
  LET f == CHOOSE i \in 1..Len(text) :
             /\ text[i] = "{"
             /\ \A j \in 1..(i - 1) : text[j] # "{"
      l == CHOOSE i \in 1..Len(text) :
             /\ text[i] = "}"
             /\ \A j \in (i + 1)..Len(text) : text[j] # "}"
  IN SubSeq(text, f, l)

\* Mutation of JsonParse: what follows the object is skipped instead of
\* being a syntax error.
JsonParseSkipsProse(jsonText) ==
  LET sig == SelectSeq(jsonText, LAMBDA c : c # "ws" /\ c # "txt")
  IN  IF sig = <<"{", "S", "}">> THEN "object_with_strategies"
      ELSE IF sig = <<"{", "O", "}">> \/ sig = <<"{", "}">> THEN "object"
      ELSE "SyntaxError"

\* JSON.parse: "object_with_strategies", "object" or "SyntaxError".
JsonParse(jsonText) ==
  LET sig == SelectSeq(jsonText, LAMBDA c : c # "ws")
  IN  IF sig = <<"{", "S", "}">> THEN "object_with_strategies"
      ELSE IF sig = <<"{", "O", "}">> \/ sig = <<"{", "}">> THEN "object"
      ELSE "SyntaxError"

\* A throw: the caller gets the Error and no value.
Threw(error, issues) ==
  [status |-> "threw", error |-> error, strategies |-> <<>>,
   issues |-> issues, log |-> <<>>, value |-> <<>>]

\* Mutation of Finish: an average of 0.3 itself is flagged (<= for <).
FinishFlagsAt03(end) ==
  LET sum == SumConfidence(end.strategies)
      low == IF sum <= LowAverage * Len(end.strategies)
             THEN <<Issue("low_average_confidence", <<>>, <<>>,
                          sum \div Len(end.strategies))>>
             ELSE <<>>
  IN
  IF Len(end.strategies) = 0
  THEN [Threw("LLM provided no valid exit strategies", end.issues)
          EXCEPT !.log = end.log]
  ELSE [status |-> "returned", error |-> "", strategies |-> end.strategies,
        issues |-> end.issues \o low, log |-> end.log, value |-> end.strategies]

\* Mutation of Finish: VALIDATOR 4 is missing, an empty list is returned.
FinishReturnsEmpty(end) ==
  LET sum == SumConfidence(end.strategies)
      low == IF Len(end.strategies) > 0 /\ sum < LowAverage * Len(end.strategies)
             THEN <<Issue("low_average_confidence", <<>>, <<>>,
                          sum \div Len(end.strategies))>>
             ELSE <<>>
  IN  [status |-> "returned", error |-> "", strategies |-> end.strategies,
       issues |-> end.issues \o low, log |-> end.log, value |-> end.strategies]

\* VALIDATOR 4, VALIDATOR 5 and the return, after the loop. The issues are
\* printed with console.warn; value is what `return strategies` hands back.
Finish(end) ==
  LET sum == SumConfidence(end.strategies)
      low == IF sum < LowAverage * Len(end.strategies)
             THEN <<Issue("low_average_confidence", <<>>, <<>>,
                          sum \div Len(end.strategies))>>
             ELSE <<>>
  IN
  IF Len(end.strategies) = 0
  THEN [Threw("LLM provided no valid exit strategies", end.issues)
          EXCEPT !.log = end.log]
  ELSE [status |-> "returned", error |-> "", strategies |-> end.strategies,
        issues |-> end.issues \o low, log |-> end.log, value |-> end.strategies]

parseExitStrategies(response, hk, eps, src) ==
  LET trimmed == TrimEndWs(TrimStartWs(response.text))
  IN
  IF ~StartsWithBrace(trimmed) /\ ~HasJsonMatch(response.text)
  THEN Threw("No JSON found in response", <<>>)
  ELSE
    LET jsonText == IF StartsWithBrace(trimmed) THEN trimmed
                    ELSE JsonMatch(response.text)
        parsed == JsonParse(jsonText)
    IN
    IF parsed = "SyntaxError" THEN Threw("SyntaxError", <<>>)
    ELSE IF parsed # "object_with_strategies"
    THEN Threw("Invalid response format", <<>>)
    ELSE Finish(Loop(response.strategies, eps, hk, src, EmptyLoop))

----------------------------------------------------------------------------
(* Bounds and inputs *)

\* Longest strategies array built from CoreCandidates.
MaxCands == 2

\* Most addExitPoint calls in a run.
MaxAdded == 1

NameValues ==
  { Undefined, Str(BlankText), Str(BearBrookTrail), Str(NorthTrailhead),
    Str(EmergencyShelter), Str(RidgeCutoff), Str(SaddleSpur), Str(LowerBearBrook) }

ConfidenceValues ==
  { Str(<<"0", ".", "9">>), Num(0 - 1), Num(0), Num(8500), Num(One), Num(One + 1) }

ReasoningValues ==
  { Undefined, Str(<<>>), Str(BlankText), Str(SteadyDescent), Str(CloseAndEasy),
    Str(DifficultFar), Str(NotEasy), Str(Difficult), Str(CloseBy), Str(Farther),
    Str(GoodWeather), Str(Beginner) }

AllCandidates ==
  { RawNull, RawPrimitive } \cup
  { RawObject(n, c, r) : n \in NameValues, c \in ConfidenceValues, r \in ReasoningValues }

CoreCandidates ==
  { RawObject(Str(BearBrookTrail), Num(8500), Str(SteadyDescent)),
    RawObject(Str(BearBrookTrail), Num(One), Str(CloseAndEasy)),
    RawObject(Str(EmergencyShelter), Num(0), Str(SteadyDescent)),
    RawObject(Str(NorthTrailhead), Num(8500), Str(SteadyDescent)),
    RawObject(Str(LowerBearBrook), Num(8500), Str(SteadyDescent)),
    RawObject(Str(BearBrookTrail), Num(One + 1), Str(SteadyDescent)),
    RawObject(Str(BearBrookTrail), Num(8500), Str(BlankText)),
    RawObject(Str(BearBrookTrail), Num(8500), Str(DifficultFar)),
    RawObject(Undefined, Num(8500), Str(SteadyDescent)),
    RawNull }

SeqsUpTo(S, n) == UNION { [1..k -> S] : k \in 0..n }

Batches == { <<c>> : c \in AllCandidates } \cup SeqsUpTo(CoreCandidates, MaxCands)

DirectText == <<"{", "S", "}">>

OtherTexts ==
  { <<"ws", "{", "S", "}", "ws">>, <<"txt", "{", "ws", "S", "}", "txt">>,
    <<>>, <<"txt">>, <<"txt", "}", "{">>, <<"{", "S">>,
    <<"{", "G", "}">>, <<"{", "O", "}">>, <<"{", "}">>,
    <<"{", "S", "}", "txt">>, <<"txt", "{", "S", "}", "txt", "}">> }

Responses ==
  { [text |-> DirectText, strategies |-> b] : b \in Batches } \cup
  { [text |-> t, strategies |-> b] : t \in OtherTexts, b \in SeqsUpTo(CoreCandidates, 1) }

Difficulties == {"easy", "moderate", "hard", "expert"}

\* The ActiveHike handed to parseExitStrategies by getExitStrategies, which
\* has checked isActive.
Hikes ==
  { [id |-> "hike_1", user |-> [id |-> "user1"], route |-> [difficulty |-> d],
     currentLocation |-> "trailhead", isActive |-> TRUE] : d \in Difficulties }

\* The clock reading and the generator behind Date.now() and Math.random().
Sources == { [now |-> 1000, seed |-> 0], [now |-> 2000, seed |-> 1] }

AddableExitPoints ==
  { ExitPoint("exit4", RidgeCutoff, "moderate", 20),
    ExitPoint("exit5", SaddleSpur, "easy", 10),
    ExitPoint("exit1", NorthTrailhead, "difficult", 30) }

----------------------------------------------------------------------------
(* The state machine *)

NoHike ==
  [id |-> "", user |-> [id |-> ""], route |-> [difficulty |-> ""],
   currentLocation |-> "", isActive |-> FALSE]

NoResponse == [text |-> <<>>, strategies |-> <<>>]

NoSource == [now |-> 0, seed |-> 0]

NoResult ==
  [status |-> "", error |-> "", strategies |-> <<>>, issues |-> <<>>, log |-> <<>>,
   value |-> <<>>]

\* The Map after new Map(): no key.
EmptyMap == <<>>

\* Map.set(key, value)
MapPut(m, key, value) == (key :> value) @@ m

\* Map.delete(key)
MapDelete(m, key) ==
  IF DOMAIN m \ {key} = {} THEN EmptyMap ELSE [k \in DOMAIN m \ {key} |-> m[k]]

NoPrompt == <<>>

\* last holds how the latest call of startHike, updateLocation, endHike or
\* learnFromUserFeedback ended: the hike it was given or returned and the
\* message of the Error it threw, if any.  NoCall after any other step.
NoCall == [op |-> "", user |-> "", hike |-> NoHike, error |-> ""]

Init ==
  /\ exitPoints = initializeExitPoints
  /\ activeHikes = EmptyMap
  /\ userProfiles = EmptyMap
  /\ added = 0
  /\ pc = "idle"
  /\ hike = NoHike
  /\ prompt = NoPrompt
  /\ llmCalls = 0
  /\ last = NoCall
  /\ responseText = NoResponse
  /\ source = NoSource
  /\ result = NoResult

\* A call of addExitPoint runs between the steps of the other calls: before
\* a getExitStrategies, or while one awaits the LLM.
addExitPoint(exitPoint) ==
  /\ pc # "done"
  /\ added < MaxAdded
  /\ exitPoints' = MapSet(exitPoints, exitPoint)
  /\ added' = added + 1
  /\ last' = NoCall
  /\ UNCHANGED <<activeHikes, userProfiles, pc, hike, prompt, llmCalls, responseText,
                 source, result>>

\* The synchronous tail of getExitStrategies: the text has arrived and is
\* parsed against the store as it is now.
ParseExitStrategies(response, hk, src) ==
  /\ pc = "idle"
  /\ pc' = "done"
  /\ hike' = hk
  /\ responseText' = response
  /\ source' = src
  /\ result' = parseExitStrategies(response, hk, exitPoints, src)
  /\ last' = NoCall
  /\ UNCHANGED <<exitPoints, activeHikes, userProfiles, added, prompt, llmCalls>>

\* The caller has taken the list or the error; the locals are gone.
Return ==
  /\ pc = "done"
  /\ pc' = "idle"
  /\ hike' = NoHike
  /\ responseText' = NoResponse
  /\ source' = NoSource
  /\ result' = NoResult
  /\ prompt' = NoPrompt
  /\ llmCalls' = 0
  /\ last' = NoCall
  /\ UNCHANGED <<exitPoints, activeHikes, userProfiles, added>>

AddExitPoint ==
  /\ pc # "done"
  /\ added < MaxAdded
  /\ \E e \in AddableExitPoints : addExitPoint(e)

Parse ==
  /\ pc = "idle"
  /\ \E r \in Responses, h \in Hikes, s \in Sources : ParseExitStrategies(r, h, s)

Next == AddExitPoint \/ Parse \/ Return

Spec == Init /\ [][Next]_vars

\* The same machine over candidates that differ in their confidence: values
\* on both sides of 0.3 and of 0.95.
ConfidenceGrid == {0, 1000, 2999, 3000, 5000, 9500, 9501, One}

GradedCandidates ==
  { RawObject(Str(n), Num(c), Str(SteadyDescent)) :
      n \in {BearBrookTrail, EmergencyShelter}, c \in ConfidenceGrid } \cup
  { RawObject(Str(BearBrookTrail), Num(9501), Str(DifficultFar)),
    RawObject(Str(LowerBearBrook), Num(9501), Str(SteadyDescent)) }

GradedResponses ==
  { [text |-> DirectText, strategies |-> b] : b \in SeqsUpTo(GradedCandidates, MaxCands) }

GradedHike ==
  [id |-> "hike_1", user |-> [id |-> "user1"], route |-> [difficulty |-> "moderate"],
   currentLocation |-> "trailhead", isActive |-> TRUE]

FixedSource == [now |-> 1000, seed |-> 0]

ParseGraded ==
  /\ pc = "idle"
  /\ \E r \in GradedResponses : ParseExitStrategies(r, GradedHike, FixedSource)

NextConfidence == AddExitPoint \/ ParseGraded \/ Return

SpecConfidence == Init /\ [][NextConfidence]_vars

----------------------------------------------------------------------------
(* The planner: hikes, profiles and a getExitStrategies call that awaits the
   LLM.  One getExitStrategies call is followed at a time; the calls without
   an await (startHike, endHike, addUserProfile, addExitPoint) run before it
   or while it awaits. *)

Users == { [id |-> "user1"], [id |-> "user2"] }

PlannerRoutes == { [difficulty |-> "moderate", waypoints |-> <<"trailhead">>] }

\* `hike_${Date.now()}` at two readings of the clock; startTime is read from
\* the same clock, so that the id stands for it.
HikeIds == {"hike_1000", "hike_2000"}

Locations == {"trailhead", "ridge"}

\* The ActiveHike objects a caller can hand in: what startHike or
\* updateLocation returned, or a copy with isActive false.
HikeObjects ==
  { [id |-> i, user |-> u, route |-> r, currentLocation |-> l, isActive |-> a] :
      i \in HikeIds, u \in Users, r \in PlannerRoutes, l \in Locations,
      a \in BOOLEAN }

Profiles ==
  { [id |-> "profile1", userId |-> "user1"], [id |-> "profile2", userId |-> "user2"] }

PlannerCandidates ==
  { RawObject(Str(BearBrookTrail), Num(8500), Str(SteadyDescent)),
    RawObject(Str(NorthTrailhead), Num(8500), Str(SteadyDescent)),
    RawObject(Str(RidgeCutoff), Num(8500), Str(SteadyDescent)),
    RawObject(Str(EmergencyShelter), Num(8500), Str(SteadyDescent)),
    RawObject(Str(EmergencyShelter), Num(8500), Str(DifficultFar)) }

PlannerResponses ==
  { [text |-> DirectText, strategies |-> b] : b \in SeqsUpTo(PlannerCandidates, MaxCands) }
  \cup { [text |-> <<"txt">>, strategies |-> <<>>] }

\* The lines of the prompt that list the exit points.
availableExitPoints(eps) ==
  [i \in 1..Len(eps) |->
     [name |-> eps[i].name, distanceFromCurrent |-> eps[i].distanceFromCurrent,
      accessibility |-> eps[i].accessibility]]

Call(op, user, hk, error) == [op |-> op, user |-> user, hike |-> hk, error |-> error]

\* Mutation of startHike: the has() check is missing, the new hike replaces
\* the one of the user.
startHikeReplaces(route, user, id) ==
  /\ pc # "done"
  /\ LET newHike ==
           [id |-> id, user |-> user, route |-> route,
            currentLocation |-> route.waypoints[1], isActive |-> TRUE]
     IN  /\ activeHikes' = MapPut(activeHikes, user.id, newHike)
         /\ last' = Call("startHike", user.id, newHike, "")
  /\ UNCHANGED <<exitPoints, userProfiles, added, pc, hike, prompt, llmCalls,
                 responseText, source, result>>

\* startHike, with id the value of `hike_${Date.now()}`.
startHike(route, user, id) ==
  /\ pc # "done"
  /\ IF user.id \in DOMAIN activeHikes
     THEN /\ last' = Call("startHike", user.id, NoHike, "User is already on an active hike")
          /\ UNCHANGED activeHikes
     ELSE LET newHike ==
                [id |-> id, user |-> user, route |-> route,
                 currentLocation |-> route.waypoints[1], isActive |-> TRUE]
          IN  /\ activeHikes' = MapPut(activeHikes, user.id, newHike)
              /\ last' = Call("startHike", user.id, newHike, "")
  /\ UNCHANGED <<exitPoints, userProfiles, added, pc, hike, prompt, llmCalls,
                 responseText, source, result>>

\* updateLocation: { ...hike, currentLocation: newLocation } is stored under
\* the user of the hike it was given.
updateLocation(hk, newLocation) ==
  /\ pc # "done"
  /\ IF ~hk.isActive
     THEN /\ last' = Call("updateLocation", hk.user.id, hk, "Hike is not active")
          /\ UNCHANGED activeHikes
     ELSE LET updatedHike == [hk EXCEPT !.currentLocation = newLocation]
          IN  /\ activeHikes' = MapPut(activeHikes, hk.user.id, updatedHike)
              /\ last' = Call("updateLocation", hk.user.id, hk, "")
  /\ UNCHANGED <<exitPoints, userProfiles, added, pc, hike, prompt, llmCalls,
                 responseText, source, result>>

\* Mutation of endHike: the isActive check is missing.
endHikeUnchecked(hk) ==
  /\ pc # "done"
  /\ activeHikes' = MapDelete(activeHikes, hk.user.id)
  /\ last' = Call("endHike", hk.user.id, hk, "")
  /\ UNCHANGED <<exitPoints, userProfiles, added, pc, hike, prompt, llmCalls,
                 responseText, source, result>>

\* endHike: the entry of the user is deleted; the hike object it was given
\* is left as it is.
endHike(hk) ==
  /\ pc # "done"
  /\ IF ~hk.isActive
     THEN /\ last' = Call("endHike", hk.user.id, hk, "Hike is not active")
          /\ UNCHANGED activeHikes
     ELSE /\ activeHikes' = MapDelete(activeHikes, hk.user.id)
          /\ last' = Call("endHike", hk.user.id, hk, "")
  /\ UNCHANGED <<exitPoints, userProfiles, added, pc, hike, prompt, llmCalls,
                 responseText, source, result>>

addUserProfile(profile) ==
  /\ pc # "done"
  /\ userProfiles' = MapPut(userProfiles, profile.userId, profile)
  /\ last' = NoCall
  /\ UNCHANGED <<exitPoints, activeHikes, added, pc, hike, prompt, llmCalls,
                 responseText, source, result>>

\* Mutation of getExitStrategies: a user without a profile is given one
\* instead of an error.
getExitStrategiesAddsProfile(hk) ==
  /\ pc = "idle"
  /\ hike' = hk
  /\ IF ~hk.isActive
     THEN /\ pc' = "done"
          /\ result' = Threw("Hike is not active", <<>>)
          /\ UNCHANGED <<prompt, llmCalls, userProfiles>>
     ELSE /\ pc' = "awaiting"
          /\ prompt' = availableExitPoints(exitPoints)
          /\ llmCalls' = llmCalls + 1
          /\ userProfiles' =
               IF hk.user.id \in DOMAIN userProfiles THEN userProfiles
               ELSE MapPut(userProfiles, hk.user.id,
                           [id |-> "profile0", userId |-> hk.user.id])
          /\ UNCHANGED result
  /\ last' = NoCall
  /\ UNCHANGED <<exitPoints, activeHikes, added, responseText, source>>

\* getExitStrategies up to its await: the two checks, the prompt, and the
\* request to the LLM.
getExitStrategies(hk) ==
  /\ pc = "idle"
  /\ hike' = hk
  /\ IF ~hk.isActive
     THEN /\ pc' = "done"
          /\ result' = Threw("Hike is not active", <<>>)
          /\ UNCHANGED <<prompt, llmCalls>>
     ELSE IF hk.user.id \notin DOMAIN userProfiles
     THEN /\ pc' = "done"
          /\ result' = Threw("User profile not found", <<>>)
          /\ UNCHANGED <<prompt, llmCalls>>
     ELSE /\ pc' = "awaiting"
          /\ prompt' = availableExitPoints(exitPoints)
          /\ llmCalls' = llmCalls + 1
          /\ UNCHANGED result
  /\ last' = NoCall
  /\ UNCHANGED <<exitPoints, activeHikes, userProfiles, added, responseText, source>>

\* Mutation of LLMResolves: a text that makes parseExitStrategies throw is
\* answered with another request to the LLM.
LLMResolvesRetries(response, src) ==
  /\ pc = "awaiting"
  /\ last' = NoCall
  /\ IF parseExitStrategies(response, hike, exitPoints, src).status = "threw"
     THEN /\ llmCalls' = llmCalls + 1
          /\ UNCHANGED <<pc, responseText, source, result>>
     ELSE /\ pc' = "done"
          /\ responseText' = response
          /\ source' = src
          /\ result' = parseExitStrategies(response, hike, exitPoints, src)
          /\ UNCHANGED llmCalls
  /\ UNCHANGED <<exitPoints, activeHikes, userProfiles, added, hike, prompt>>

\* The LLM has answered: the text is parsed against the store as it is now.
LLMResolves(response, src) ==
  /\ pc = "awaiting"
  /\ pc' = "done"
  /\ responseText' = response
  /\ source' = src
  /\ result' = parseExitStrategies(response, hike, exitPoints, src)
  /\ last' = NoCall
  /\ UNCHANGED <<exitPoints, activeHikes, userProfiles, added, hike, prompt, llmCalls>>

\* executeLLM has thrown: the catch logs and rethrows.
LLMRejects ==
  /\ pc = "awaiting"
  /\ pc' = "done"
  /\ result' = Threw("LLM error", <<>>)
  /\ last' = NoCall
  /\ UNCHANGED <<exitPoints, activeHikes, userProfiles, added, hike, prompt, llmCalls,
                 responseText, source>>

\* In SpecPlanner one user hikes and has a profile; getExitStrategies is
\* also called for a user without a profile and with inactive copies.
PlannerHikeObjects ==
  { h \in HikeObjects : h.id = "hike_1000" /\ h.currentLocation = "trailhead" }

StartHike ==
  /\ pc # "done"
  /\ \E r \in PlannerRoutes : startHike(r, [id |-> "user1"], "hike_1000")

EndHike ==
  /\ pc # "done"
  /\ \E h \in { o \in PlannerHikeObjects : o.user.id = "user1" } : endHike(h)

AddUserProfile ==
  /\ pc # "done"
  /\ \E p \in { q \in Profiles : q.userId = "user1" } : addUserProfile(p)

GetExitStrategies ==
  /\ pc = "idle"
  /\ \E h \in PlannerHikeObjects : getExitStrategies(h)

LLMAnswers ==
  /\ pc = "awaiting"
  /\ \E r \in PlannerResponses : LLMResolves(r, FixedSource)

\* The exit points a caller of the planner adds: those above and the one of
\* testLimitedExitOptions, a new id under the name of exit3.
PlannerAddableExitPoints ==
  AddableExitPoints \cup { ExitPoint("difficult_exit", EmergencyShelter, "difficult", 35) }

PlannerAddExitPoint ==
  /\ pc # "done"
  /\ added < MaxAdded
  /\ \E e \in PlannerAddableExitPoints : addExitPoint(e)

NextPlanner ==
  \/ PlannerAddExitPoint
  \/ AddUserProfile
  \/ StartHike
  \/ EndHike
  \/ GetExitStrategies
  \/ LLMAnswers
  \/ LLMRejects
  \/ Return

SpecPlanner == Init /\ [][NextPlanner]_vars

----------------------------------------------------------------------------
(* The hikes: two users start, move and end hikes, with any ActiveHike
   object handed in, while getExitStrategies calls for the first user come
   and go. *)

HikeStarts ==
  /\ pc # "done"
  /\ \E r \in PlannerRoutes, u \in Users, i \in HikeIds : startHike(r, u, i)

HikeMoves ==
  /\ pc # "done"
  /\ \E h \in HikeObjects, l \in Locations : updateLocation(h, l)

HikeEnds ==
  /\ pc # "done"
  /\ \E h \in HikeObjects : endHike(h)

ProfileAdded ==
  /\ pc # "done"
  /\ \E p \in Profiles : addUserProfile(p)

AskedHikeObjects ==
  { h \in HikeObjects : h.user.id = "user1" /\ h.currentLocation = "trailhead" }

StrategiesAsked ==
  /\ pc = "idle"
  /\ \E h \in AskedHikeObjects : getExitStrategies(h)

HikeResponses ==
  { [text |-> DirectText,
     strategies |-> <<RawObject(Str(BearBrookTrail), Num(8500), Str(SteadyDescent))>>],
    [text |-> <<"txt">>, strategies |-> <<>>] }

LLMAnswersHike ==
  /\ pc = "awaiting"
  /\ \E r \in HikeResponses : LLMResolves(r, FixedSource)

\* The text of a response to the learning prompt, in the alphabet of the
\* responses above with "P" for the members of a profile, and the object its
\* JSON text denotes.
ProfileTexts ==
  { <<"txt", "{", "P", "}", "txt">>, <<"{", "}">>, <<"txt">>, <<"{", "P">>,
    <<"{", "G", "}">> }

\* The profile objects a response can spell: that of either user, under any
\* profile id.
LearnedProfiles == Profiles

\* JSON.parse("{}"): an object whose members all read undefined.
EmptyObject == [id |-> "", userId |-> ""]

ProfileResponses ==
  { [text |-> t, profile |-> p] : t \in ProfileTexts, p \in LearnedProfiles }

\* JSON.parse of the matched text: the object, or "SyntaxError".
JsonParseProfile(jsonText, profile) ==
  LET sig == SelectSeq(jsonText, LAMBDA c : c # "ws")
  IN  IF sig = <<"{", "P", "}">> THEN [status |-> "parsed", value |-> profile]
      ELSE IF sig = <<"{", "}">> THEN [status |-> "parsed", value |-> EmptyObject]
      ELSE [status |-> "SyntaxError", value |-> EmptyObject]

\* parseUpdatedProfile: the object between the first opening and the last
\* closing brace, as JSON.parse reads it and without any check of its members.
parseUpdatedProfile(response) ==
  IF ~HasJsonMatch(response.text)
  THEN [status |-> "threw", error |-> "No JSON found in response", value |-> EmptyObject]
  ELSE
    LET parsed == JsonParseProfile(JsonMatch(response.text), response.profile)
    IN  IF parsed.status = "SyntaxError"
        THEN [status |-> "threw", error |-> "SyntaxError", value |-> EmptyObject]
        ELSE [status |-> "returned", error |-> "", value |-> parsed.value]

\* learnFromUserFeedback, at the arrival of the response. What runs before the
\* await builds the prompt and neither tests nor writes anything, so the call
\* is this one step; a rejected generation call is rethrown like a parse
\* failure and writes nothing.
learnFromUserFeedback(hk, response) ==
  /\ pc # "done"
  /\ LET updatedProfile == parseUpdatedProfile(response)
     IN  IF updatedProfile.status = "threw"
         THEN /\ last' = Call("learnFromUserFeedback", hk.user.id, NoHike, updatedProfile.error)
              /\ UNCHANGED userProfiles
         ELSE /\ userProfiles' = MapPut(userProfiles, hk.user.id, updatedProfile.value)
              /\ last' = Call("learnFromUserFeedback", hk.user.id, NoHike, "")
  /\ UNCHANGED <<exitPoints, activeHikes, added, pc, hike, prompt, llmCalls,
                 responseText, source, result>>

ProfileLearned ==
  /\ pc # "done"
  /\ \E h \in AskedHikeObjects, r \in ProfileResponses : learnFromUserFeedback(h, r)

NextHikes ==
  \/ HikeStarts
  \/ HikeMoves
  \/ HikeEnds
  \/ ProfileAdded
  \/ ProfileLearned
  \/ StrategiesAsked
  \/ LLMAnswersHike
  \/ LLMRejects
  \/ Return

SpecHikes == Init /\ [][NextHikes]_vars

----------------------------------------------------------------------------
(* Properties *)

batch == responseText.strategies

NoValidStrategies == "LLM provided no valid exit strategies"

Returned == pc = "done" /\ result.status = "returned"

\* The strategies array was reached and looped over.
Processed == pc = "done" /\ (result.status = "returned" \/ result.error = NoValidStrategies)

\* C1: every strategy of a returned list has a confidence within [0,1], a
\* reasoning that is non-empty after trimming and an exit point that is in
\* the store, and no two strategies of the list have the same exit-point id.
C1_StrategiesWellFormed ==
  Returned =>
    \A i \in 1..Len(result.strategies) :
      LET s == result.strategies[i] IN
        /\ 0 <= s.confidenceScore /\ s.confidenceScore <= One
        /\ Len(Trim(s.reasoning)) > 0
        /\ \E j \in 1..Len(exitPoints) : exitPoints[j] = s.exitPoint
        /\ \A k \in 1..Len(result.strategies) :
             k # i => result.strategies[k].exitPoint.id # s.exitPoint.id

\* A list of two strategies was returned.
C1_Witness == Returned /\ Len(result.strategies) = 2

\* The five rejection checks, each stated of a candidate alone.
ShapeFails(c) ==
  \/ c.t # "object"
  \/ c.isNull
  \/ c.exitPointName.t # "string"
  \/ Trim(c.exitPointName.s) = <<>>

ResolutionFails(c) ==
  \A j \in 1..Len(exitPoints) : exitPoints[j].name # c.exitPointName.s

ConfidenceFails(c) ==
  c.confidence.t # "number" \/ c.confidence.n < 0 \/ c.confidence.n > One

ReasoningFails(c) ==
  c.reasoning.t # "string" \/ Trim(c.reasoning.s) = <<>>

\* The exit point a registered name stands for: the first of that name.
Resolved(c) ==
  exitPoints[CHOOSE j \in 1..Len(exitPoints) :
               /\ exitPoints[j].name = c.exitPointName.s
               /\ \A k \in 1..(j - 1) : exitPoints[k].name # c.exitPointName.s]

Contradicts(c) ==
  LET text == ToLowerCase(c.reasoning.s)
      ep == Resolved(c)
  IN  \/ Includes(text, kwEasy) /\ ep.accessibility = "difficult"
      \/ Includes(text, kwDifficult) /\ ep.accessibility = "easy"
      \/ Includes(text, kwClose) /\ ep.distanceFromCurrent > 20
      \/ Includes(text, kwFar) /\ ep.distanceFromCurrent < 10
      \/ Includes(text, kwGoodWeather) /\ hike.route.difficulty = "expert"
      \/ Includes(text, kwBeginner) /\ hike.route.difficulty = "expert"

\* The issue kinds of the earliest check the candidate fails; none if it
\* passes all five.
ExpectedRejection(c) ==
  IF ShapeFails(c) THEN {"not_an_object", "missing_exit_point_name"}
  ELSE IF ResolutionFails(c) THEN {"exit_point_not_found"}
  ELSE IF ConfidenceFails(c) THEN {"invalid_confidence"}
  ELSE IF ReasoningFails(c) THEN {"missing_reasoning"}
  ELSE IF Contradicts(c) THEN {"logical_issues"}
  ELSE {}

PassesChecks(c) == ExpectedRejection(c) = {}

RECURSIVE Pushed(_)
Pushed(log) == IF log = <<>> THEN <<>> ELSE Head(log).pushed \o Pushed(Tail(log))

\* C2: a candidate that fails one or more of the checks shape, resolution,
\* confidence range, reasoning presence, reasoning consistency gets exactly
\* one issue, that of the earliest check it fails, and no strategy; the issues
\* array holds what the passes pushed, in order.
C2_EarliestFailureOnly ==
  Processed =>
    /\ Len(result.log) = Len(batch)
    /\ Pushed(result.log) =
         SelectSeq(result.issues, LAMBDA x : x.kind # "low_average_confidence")
    /\ \A i \in 1..Len(batch) :
         ExpectedRejection(batch[i]) # {} =>
           /\ Len(result.log[i].pushed) = 1
           /\ result.log[i].pushed[1].kind \in ExpectedRejection(batch[i])
           /\ result.log[i].strategy = <<>>

\* An unknown exit-point name with an out-of-range confidence recorded the
\* unknown-exit-point issue.
C2_Witness ==
  /\ Processed
  /\ \E i \in 1..Len(batch) :
       /\ batch[i].exitPointName = Str(LowerBearBrook)
       /\ batch[i].confidence = Num(One + 1)
       /\ result.log[i].pushed = <<Issue("exit_point_not_found", LowerBearBrook, <<>>, 0)>>

\* The candidate fails a check, or an earlier candidate that passes them all
\* stands for the same exit point.
Rejected(i) ==
  \/ ~PassesChecks(batch[i])
  \/ \E j \in 1..(i - 1) :
       PassesChecks(batch[j]) /\ Resolved(batch[j]).id = Resolved(batch[i]).id

RemoveAt(seq, i) == SubSeq(seq, 1, i - 1) \o SubSeq(seq, i + 1, Len(seq))

\* A strategy without its generated id and arrival time.
Content(strategies) ==
  [k \in 1..Len(strategies) |->
     [exitPoint |-> strategies[k].exitPoint,
      confidenceScore |-> strategies[k].confidenceScore,
      reasoning |-> strategies[k].reasoning]]

MalformedErrors ==
  {"No JSON found in response", "SyntaxError", "Invalid response format"}

\* C3: the same response without one of its rejected candidates yields the
\* same accepted strategies in the same order; and a call fails only on a
\* malformed response or when every candidate was rejected.
C3_RejectedCandidateIsInert ==
  pc = "done" =>
    /\ result.status = "threw" =>
         \/ result.error \in MalformedErrors
         \/ result.error = NoValidStrategies /\ \A i \in 1..Len(batch) : Rejected(i)
    /\ Processed =>
         \A i \in 1..Len(batch) :
           Rejected(i) =>
             LET without ==
                   parseExitStrategies(
                     [responseText EXCEPT !.strategies = RemoveAt(batch, i)],
                     hike, exitPoints, source)
             IN  /\ Content(without.strategies) = Content(result.strategies)
                 /\ without.status = result.status

\* A rejected candidate came first and the one after it was accepted.
C3_Witness ==
  /\ Returned
  /\ Len(batch) = 2
  /\ Rejected(1)
  /\ ~Rejected(2)
  /\ Len(result.strategies) = 1
\* C4: a candidate that passes the checks and stands for an exit point an
\* earlier candidate was accepted for is dropped, its pass ends with the
\* duplicate issue, and the strategy of that exit point keeps the confidence
\* and the reasoning of the earlier candidate.
C4_FirstSeenWins ==
  Processed =>
    \A j \in 1..Len(batch) : \A i \in 1..(j - 1) :
      ( /\ PassesChecks(batch[j])
        /\ ~Rejected(i)
        /\ Resolved(batch[i]).id = Resolved(batch[j]).id ) =>
        LET pushed == result.log[j].pushed IN
        /\ result.log[j].strategy = <<>>
        /\ pushed # <<>>
        /\ pushed[Len(pushed)] =
             Issue("duplicate_exit_point", batch[j].exitPointName.s, <<>>, 0)
        /\ \E k \in 1..Len(result.strategies) :
             /\ result.strategies[k].exitPoint = Resolved(batch[i])
             /\ result.strategies[k].confidenceScore = batch[i].confidence.n
             /\ result.strategies[k].reasoning = batch[i].reasoning.s
        /\ \A k \in 1..Len(result.strategies) :
             result.strategies[k].exitPoint.id = Resolved(batch[j]).id =>
               /\ result.strategies[k].confidenceScore = batch[i].confidence.n
               /\ result.strategies[k].reasoning = batch[i].reasoning.s

\* Two candidates for one exit point with different confidences and
\* reasonings, both passing the checks.
C4_Witness ==
  /\ Returned
  /\ Len(batch) = 2
  /\ PassesChecks(batch[1]) /\ PassesChecks(batch[2])
  /\ Resolved(batch[1]).id = Resolved(batch[2]).id
  /\ batch[1].confidence # batch[2].confidence
  /\ batch[1].reasoning # batch[2].reasoning
  /\ Len(result.strategies) = 1
\* The candidate has a name that a registered exit point carries.
Resolves(c) == ~ShapeFails(c) /\ ~ResolutionFails(c)

Survives(i) == result.log[i].strategy # <<>>

DuplicateRecorded ==
  \E n \in 1..Len(result.issues) : result.issues[n].kind = "duplicate_exit_point"

\* C5 as stated: of any two candidates that resolve to the same registered
\* exit point, exactly the first survives and a duplicate issue is recorded.
C5_AnyTwoResolving ==
  Processed =>
    \A j \in 1..Len(batch) : \A i \in 1..(j - 1) :
      ( /\ Resolves(batch[i]) /\ Resolves(batch[j])
        /\ Resolved(batch[i]).id = Resolved(batch[j]).id ) =>
        /\ Survives(i)
        /\ ~Survives(j)
        /\ DuplicateRecorded

\* The candidates that pass every check and stand for the exit point of id.
Group(id) ==
  { i \in 1..Len(batch) : PassesChecks(batch[i]) /\ Resolved(batch[i]).id = id }

First(group) == CHOOSE i \in group : \A j \in group : i <= j

\* C5 (amended): among the candidates that pass every validator check and
\* resolve to the same registered exit point, exactly the first in input
\* order survives, the list holds one strategy for that exit point, and one
\* duplicate issue is recorded for each of the others.
C5_FirstOfPassingSurvives ==
  Processed =>
    \A i \in 1..Len(batch) :
      PassesChecks(batch[i]) =>
        LET id == Resolved(batch[i]).id
            group == Group(id)
            name == batch[i].exitPointName.s
        IN  /\ Survives(i) <=> i = First(group)
            /\ Cardinality({ k \in 1..Len(result.strategies) :
                               result.strategies[k].exitPoint.id = id }) = 1
            /\ Cardinality({ n \in 1..Len(result.issues) :
                               result.issues[n] = Issue("duplicate_exit_point", name, <<>>, 0) })
                 = Cardinality(group) - 1

\* Two passing candidates for one exit point were processed and the duplicate
\* issue is in the issues array.
C5_Witness ==
  /\ Returned
  /\ \E j \in 1..Len(batch) : \E i \in 1..(j - 1) :
       /\ PassesChecks(batch[i]) /\ PassesChecks(batch[j])
       /\ Resolved(batch[i]).id = Resolved(batch[j]).id
  /\ DuplicateRecorded
\* C6: a returned list is never empty; and once the payload is extracted, the
\* call throws the no-valid-strategies error exactly when every candidate is
\* rejected (an empty strategies array included).
C6_NeverAnEmptyList ==
  pc = "done" =>
    /\ result.status = "returned" => Len(result.strategies) >= 1
    /\ result.error \notin MalformedErrors =>
         ( (result.status = "threw" /\ result.error = NoValidStrategies)
             <=> \A i \in 1..Len(batch) : Rejected(i) )

\* Two candidates, both rejected: the call threw the no-valid-strategies error.
C6_Witness ==
  /\ pc = "done"
  /\ result.status = "threw"
  /\ result.error = NoValidStrategies
  /\ Len(batch) = 2
  /\ Rejected(1) /\ Rejected(2)

\* A well-formed payload with an empty strategies array threw the same error.
C6_WitnessEmpty ==
  /\ pc = "done"
  /\ result.error = NoValidStrategies
  /\ batch = <<>>
\* The candidate passes the shape, resolution, confidence-range and
\* reasoning-presence checks.
ReachesConsistency(c) ==
  ~ShapeFails(c) /\ ~ResolutionFails(c) /\ ~ConfidenceFails(c) /\ ~ReasoningFails(c)

RejectedAsInconsistent(i) ==
  /\ result.log[i].strategy = <<>>
  /\ \E n \in 1..Len(result.log[i].pushed) :
       result.log[i].pushed[n].kind = "logical_issues"

\* C7: a candidate that reaches the consistency check is rejected as
\* inconsistent exactly when its lower-cased reasoning holds "easy" for a
\* difficult exit point, "difficult" for an easy one, "close" for one over 2
\* miles away, "far" for one under 1 mile away, or "good weather" or
\* "beginner" on an expert route.
C7_InconsistentIffContradiction ==
  Processed =>
    \A i \in 1..Len(batch) :
      ReachesConsistency(batch[i]) =>
        (RejectedAsInconsistent(i) <=> Contradicts(batch[i]))

\* "close" for an exit point exactly 2 miles away was not a contradiction.
C7_Witness ==
  /\ Processed
  /\ \E i \in 1..Len(batch) :
       /\ ReachesConsistency(batch[i])
       /\ Includes(ToLowerCase(batch[i].reasoning.s), kwClose)
       /\ Resolved(batch[i]).distanceFromCurrent = 20
       /\ Survives(i)

\* "far" for an exit point exactly 1 mile away was not a contradiction.
C7_WitnessFar ==
  /\ Processed
  /\ \E i \in 1..Len(batch) :
       /\ ReachesConsistency(batch[i])
       /\ Includes(ToLowerCase(batch[i].reasoning.s), kwFar)
       /\ Resolved(batch[i]).distanceFromCurrent = 10
       /\ Survives(i)

\* "good weather" on an expert route was rejected.
C7_WitnessWeather ==
  /\ Processed
  /\ hike.route.difficulty = "expert"
  /\ \E i \in 1..Len(batch) :
       /\ ReachesConsistency(batch[i])
       /\ Includes(ToLowerCase(batch[i].reasoning.s), kwGoodWeather)
       /\ RejectedAsInconsistent(i)
\* The scenario of C8: "Bear Brook Trail" is registered as easy and 1.2 miles
\* away, and the one candidate names it with a valid confidence and the
\* reasoning "This difficult route is far from here".
C8_Scenario ==
  /\ pc = "done"
  /\ result.error \notin MalformedErrors
  /\ Len(batch) = 1
  /\ batch[1].t = "object" /\ ~batch[1].isNull
  /\ batch[1].exitPointName = Str(BearBrookTrail)
  /\ ~ConfidenceFails(batch[1])
  /\ batch[1].reasoning = Str(DifficultFar)
  /\ ~ResolutionFails(batch[1])
  /\ Resolved(batch[1]).accessibility = "easy"
  /\ Resolved(batch[1]).distanceFromCurrent = 12

C8_Failed ==
  /\ result.status = "threw"
  /\ result.error = NoValidStrategies
  /\ result.strategies = <<>>

IssueNames(tag) ==
  \E n \in 1..Len(result.issues) :
    \E d \in 1..Len(result.issues[n].detail) : result.issues[n].detail[d] = tag

\* C8 as stated: the scenario fails with no valid strategies and its issues
\* name both the "difficult" and the "far" contradiction.
C8_BothContradictions ==
  C8_Scenario =>
    /\ C8_Failed
    /\ IssueNames("difficult_but_easy")
    /\ IssueNames("far_but_under_1_mile")

\* C8 (amended): the scenario fails with no valid strategies and its one issue
\* names the "difficult" contradiction alone: 1.2 miles is not under 1 mile.
C8_DifficultContradictionOnly ==
  C8_Scenario =>
    /\ C8_Failed
    /\ result.issues =
         <<Issue("logical_issues", BearBrookTrail, <<"difficult_but_easy">>, 0)>>

C8_Witness == C8_Scenario /\ IssueNames("difficult_but_easy")
\* C9: of a candidate that passes the shape and resolution checks, a
\* confidence from 0 to 1, both included, passes the range check and is the
\* score of the strategy when the candidate is accepted; a number under 0 or
\* over 1, or a value that is no number, gets the invalid-confidence issue
\* alone and no strategy.
C9_ConfidenceBoundary ==
  Processed =>
    \A i \in 1..Len(batch) :
      LET c == batch[i]
          pushed == result.log[i].pushed
          inRange == c.confidence.t = "number" /\ 0 <= c.confidence.n /\ c.confidence.n <= One
      IN  (~ShapeFails(c) /\ ~ResolutionFails(c)) =>
            /\ inRange =>
                 /\ \A n \in 1..Len(pushed) : pushed[n].kind # "invalid_confidence"
                 /\ ~Rejected(i) =>
                      /\ Survives(i)
                      /\ result.log[i].strategy[1].confidenceScore = c.confidence.n
            /\ ~inRange =>
                 /\ pushed = <<Issue("invalid_confidence", c.exitPointName.s, <<>>, 0)>>
                 /\ ~Survives(i)

\* A confidence of exactly 1 and one of exactly 0 are the scores of two
\* returned strategies.
C9_Witness ==
  /\ Returned
  /\ \E k \in 1..Len(result.strategies) : result.strategies[k].confidenceScore = 10000
  /\ \E k \in 1..Len(result.strategies) : result.strategies[k].confidenceScore = 0

\* A confidence of -0.0001 and one of 1.0001 were rejected.
C9_WitnessBelow ==
  /\ Processed
  /\ \E i \in 1..Len(batch) :
       /\ batch[i].confidence = Num(0 - 1)
       /\ result.log[i].pushed = <<Issue("invalid_confidence", BearBrookTrail, <<>>, 0)>>

C9_WitnessAbove ==
  /\ Processed
  /\ \E i \in 1..Len(batch) :
       /\ batch[i].confidence = Num(10001)
       /\ result.log[i].pushed = <<Issue("invalid_confidence", BearBrookTrail, <<>>, 0)>>
\* The candidate is an object whose exitPointName is a string that no
\* registered exit point has as its name.
HasUnregisteredName(c) ==
  /\ c.t = "object" /\ ~c.isNull
  /\ c.exitPointName.t = "string"
  /\ ResolutionFails(c)

NotFoundRecorded(name) ==
  \E n \in 1..Len(result.issues) :
    result.issues[n] = Issue("exit_point_not_found", name, <<>>, 0)

\* What the passes over the other candidates pushed is what they push when
\* candidate i is not in the batch.
OthersUnaffected(i) ==
  LET without ==
        parseExitStrategies(
          [responseText EXCEPT !.strategies = RemoveAt(batch, i)],
          hike, exitPoints, source)
  IN  /\ without.log = RemoveAt(result.log, i)
      /\ without.strategies = result.strategies

\* C10 as stated: every candidate whose name is not that of a registered exit
\* point is excluded with an unknown-exit-point issue naming it, the others
\* being unaffected.
C10_AnyUnregisteredName ==
  Processed =>
    \A i \in 1..Len(batch) :
      HasUnregisteredName(batch[i]) =>
        /\ ~Survives(i)
        /\ NotFoundRecorded(batch[i].exitPointName.s)
        /\ OthersUnaffected(i)

\* C10 (amended): a candidate whose name is a string, non-empty after
\* trimming, that is not exactly the name of a registered exit point is
\* excluded, its pass pushes the unknown-exit-point issue naming it and
\* nothing else, and the other candidates are unaffected.
C10_UnknownNameExcluded ==
  Processed =>
    \A i \in 1..Len(batch) :
      (HasUnregisteredName(batch[i]) /\ Trim(batch[i].exitPointName.s) # <<>>) =>
        /\ ~Survives(i)
        /\ result.log[i].pushed =
             <<Issue("exit_point_not_found", batch[i].exitPointName.s, <<>>, 0)>>
        /\ NotFoundRecorded(batch[i].exitPointName.s)
        /\ OthersUnaffected(i)

\* "bear brook trail" was excluded as unknown next to an accepted candidate
\* for "Bear Brook Trail".
C10_Witness ==
  /\ Returned
  /\ Len(batch) = 2
  /\ \E i, j \in 1..2 :
       /\ batch[i].exitPointName = Str(LowerBearBrook)
       /\ batch[j].exitPointName = Str(BearBrookTrail)
       /\ NotFoundRecorded(LowerBearBrook)
       /\ ~Survives(i)
       /\ Survives(j)

\* Every candidate of the array passes the five checks and no two of them
\* stand for the same exit point.
WellFormedDistinct ==
  /\ Processed
  /\ Len(batch) >= 1
  /\ \A i \in 1..Len(batch) : PassesChecks(batch[i])
  /\ \A i, j \in 1..Len(batch) :
       i # j => Resolved(batch[i]).id # Resolved(batch[j]).id

C11_WitnessTwo ==
  /\ WellFormedDistinct
  /\ Len(batch) = 2
  /\ Len(result.strategies) = 2
  /\ result.issues = <<>>

\* C12: on a successful call every issue recorded in the issues array is in
\* what the caller receives.
C12_IssuesReachCaller ==
  Returned =>
    \A n \in 1..Len(result.issues) :
      \E k \in 1..Len(result.value) : result.value[k] = result.issues[n]

\* What the caller receives on success is the list of strategies and nothing
\* else.
C12_OnlyStrategiesReturned ==
  Returned /\ result.issues # <<>> /\ result.value = result.strategies

\* The positions of the candidates that are not rejected, in input order.
Kept == SelectSeq([i \in 1..Len(batch) |-> i], LAMBDA i : ~Rejected(i))

\* C13: the returned list is built from the candidates that are not rejected
\* (a duplicate standing behind its first accepted occurrence), one strategy
\* each, in the order of the candidates in the strategies array.
C13_InputOrderPreserved ==
  Returned =>
    /\ Len(result.strategies) = Len(Kept)
    /\ \A k \in 1..Len(Kept) :
         /\ k <= Len(result.strategies)
         /\ result.strategies[k].exitPoint = Resolved(batch[Kept[k]])
         /\ result.strategies[k].confidenceScore = batch[Kept[k]].confidence.n
         /\ result.strategies[k].reasoning = batch[Kept[k]].reasoning.s

\* Two candidates for two exit points were both accepted.
C13_Witness ==
  /\ Returned
  /\ Kept = <<1, 2>>
  /\ Len(result.strategies) = 2
  /\ result.strategies[1].exitPoint # result.strategies[2].exitPoint

\* The sum of the confidences of the candidates that are not rejected.
RECURSIVE SumOfKept(_)
SumOfKept(kept) ==
  IF kept = <<>> THEN 0
  ELSE batch[Head(kept)].confidence.n + SumOfKept(Tail(kept))

LowAverageIssues ==
  SelectSeq(result.issues, LAMBDA x : x.kind = "low_average_confidence")

C14_WitnessAt03 ==
  /\ Returned
  /\ Len(result.strategies) = 2
  /\ batch[1].confidence = Num(1000) /\ batch[2].confidence = Num(5000)
  /\ LowAverageIssues = <<>>

HighConfidenceIssues(i) ==
  SelectSeq(result.log[i].pushed, LAMBDA x : x.kind = "unrealistic_confidence")

\* C15: a candidate that passes the five rejection checks with a confidence
\* above 0.95 gets one high-confidence issue and is still accepted, unless it
\* stands behind an earlier accepted candidate of the same exit point; a
\* candidate with a confidence of 0.95 or less gets no high-confidence issue.
C15_HighConfidenceOnlyFlags ==
  Processed =>
    \A i \in 1..Len(batch) :
      LET c == batch[i] IN
      /\ (PassesChecks(c) /\ c.confidence.n > 9500) =>
           /\ HighConfidenceIssues(i) =
                <<Issue("unrealistic_confidence", c.exitPointName.s, <<>>, c.confidence.n)>>
           /\ Survives(i) <=> ~Rejected(i)
           /\ Survives(i) => result.log[i].strategy[1].confidenceScore = c.confidence.n
      /\ (c.t = "object" /\ ~c.isNull /\ c.confidence.t = "number"
            /\ c.confidence.n <= 9500) =>
           HighConfidenceIssues(i) = <<>>

\* A candidate at 0.9501 was accepted with the issue, and one at 0.95 without.
C15_Witness ==
  /\ Returned
  /\ Len(batch) = 2
  /\ batch[1].confidence = Num(9501) /\ batch[2].confidence = Num(9500)
  /\ Survives(1) /\ Survives(2)
  /\ Len(HighConfidenceIssues(1)) = 1
  /\ HighConfidenceIssues(2) = <<>>
  /\ Len(result.issues) = 1

\* The text has an opening brace with a closing brace after it.
HasBraceSpan(text) ==
  \E f \in 1..Len(text) : \E l \in (f + 1)..Len(text) :
    text[f] = "{" /\ text[l] = "}"

FirstOpen(text) ==
  CHOOSE f \in 1..Len(text) :
    text[f] = "{" /\ \A j \in 1..(f - 1) : text[j] # "{"

LastClose(text) ==
  CHOOSE l \in 1..Len(text) :
    text[l] = "}" /\ \A j \in (l + 1)..Len(text) : text[j] # "}"

RECURSIVE Trimmed(_)
Trimmed(text) ==
  IF text = <<>> THEN text
  ELSE IF text[1] = "ws" THEN Trimmed(Tail(text))
  ELSE IF text[Len(text)] = "ws" THEN Trimmed(SubSeq(text, 1, Len(text) - 1))
  ELSE text

\* The text that is handed to the parser: the trimmed text when it begins
\* with an opening brace, else the span from the first opening brace to the
\* last closing brace.
SelectedText(text) ==
  IF Trimmed(text) # <<>> /\ Trimmed(text)[1] = "{" THEN Trimmed(text)
  ELSE SubSeq(text, FirstOpen(text), LastClose(text))

Members(text) == SelectSeq(text, LAMBDA c : c # "ws")

ExtractionFails(text) ==
  \/ ~HasBraceSpan(text)
  \/ Members(SelectedText(text)) \notin {<<"{", "S", "}">>, <<"{", "O", "}">>, <<"{", "}">>}
  \/ Members(SelectedText(text)) # <<"{", "S", "}">>

\* C16: a text without a span from an opening to a closing brace, or whose
\* selected text does not parse, or whose payload has no strategies array,
\* makes the call throw one of the malformed-response errors; no candidate
\* gets a pass of the loop, no issue is recorded and no strategy is returned.
C16_ExtractionFailureIsTotal ==
  (pc = "done" /\ ExtractionFails(responseText.text)) =>
    /\ result.status = "threw"
    /\ result.error \in MalformedErrors
    /\ result.log = <<>>
    /\ result.issues = <<>>
    /\ result.strategies = <<>>
    /\ result.value = <<>>

\* A strategies array with a candidate, followed by prose: the text begins
\* with a brace, is parsed whole and fails.
C16_Witness ==
  /\ pc = "done"
  /\ responseText.text = <<"{", "S", "}", "txt">>
  /\ Len(batch) = 1
  /\ PassesChecks(batch[1])
  /\ result.status = "threw"
  /\ result.error = "SyntaxError"
  /\ result.log = <<>>

\* A text without braces.
C16_WitnessNoBraces ==
  /\ pc = "done"
  /\ responseText.text = <<"txt">>
  /\ result.error = "No JSON found in response"

\* An object without a strategies array.
C16_WitnessNoArray ==
  /\ pc = "done"
  /\ responseText.text = <<"{", "O", "}">>
  /\ result.error = "Invalid response format"

\* Every text that is not one of these is parsed and looped over.
C16_WitnessExtracted ==
  /\ Processed
  /\ responseText.text = <<"txt", "{", "ws", "S", "}", "txt">>
  /\ Len(result.log) = 1

\* The pass of candidate i found no exit point of its name.
NotFound(i) ==
  \E n \in 1..Len(result.log[i].pushed) :
    result.log[i].pushed[n].kind = "exit_point_not_found"

\* An exit point was registered while the call awaited the LLM.
AddedWhileAwaiting == Len(prompt) < Len(exitPoints)

\* C18: in one validation pass every candidate is resolved against the same
\* exit points, those registered when the response arrived: a name is found
\* for a candidate exactly when it is registered then, a strategy carries the
\* first exit point of that name, and a name found for a later candidate was
\* found for every earlier candidate of that name; an addExitPoint during the
\* wait for the LLM is seen by all candidates or, after the response, by none.
C18_OnePassOneStore ==
  Processed =>
    /\ \A i \in 1..Len(batch) :
         ~ShapeFails(batch[i]) =>
           /\ NotFound(i) <=> ResolutionFails(batch[i])
           /\ Survives(i) => result.log[i].strategy[1].exitPoint = Resolved(batch[i])
    /\ \A j \in 1..Len(batch) : \A i \in 1..(j - 1) :
         ( /\ ~ShapeFails(batch[i]) /\ ~ShapeFails(batch[j])
           /\ batch[i].exitPointName = batch[j].exitPointName ) =>
           (NotFound(i) <=> NotFound(j))

\* Ridge Cutoff was registered while the call awaited the LLM; of two
\* candidates of that name the first was accepted and the second found it
\* too.
C18_Witness ==
  /\ Processed
  /\ AddedWhileAwaiting
  /\ exitPoints[Len(exitPoints)].name = RidgeCutoff
  /\ Len(batch) = 2
  /\ batch[1].exitPointName = Str(RidgeCutoff)
  /\ batch[2].exitPointName = Str(RidgeCutoff)
  /\ Survives(1)
  /\ ~NotFound(1) /\ ~NotFound(2)

\* The strategy was built from a candidate of this response.
FromThisResponse(strategy) ==
  \E i \in 1..Len(batch) :
    /\ ~ShapeFails(batch[i])
    /\ strategy.exitPoint.name = batch[i].exitPointName.s
    /\ strategy.confidenceScore = batch[i].confidence.n
    /\ strategy.reasoning = batch[i].reasoning.s

\* The issue is about a candidate of this response, or about their mean.
AboutThisResponse(issue) ==
  \/ issue.kind = "low_average_confidence"
  \/ \E i \in 1..Len(batch) :
       \/ ShapeFails(batch[i])
            /\ issue.kind \in {"not_an_object", "missing_exit_point_name"}
       \/ ~ShapeFails(batch[i]) /\ issue.name = batch[i].exitPointName.s

\* C19: no step of a getExitStrategies call (the checks and the request, the
\* parse of the response, the rethrow of an LLM error, the return), changes
\* the exit points, the active hikes or the user profiles; and what a call
\* holds when it ends comes from its own response: every strategy from one of
\* its candidates, every issue about one of them, at most one strategy and
\* two issues for each.
C19_SynthesisKeepsNoState ==
  /\ [][pc' # pc => UNCHANGED <<exitPoints, activeHikes, userProfiles>>]_vars
  /\ [](pc = "done" =>
          /\ \A k \in 1..Len(result.strategies) : FromThisResponse(result.strategies[k])
          /\ \A n \in 1..Len(result.issues) : AboutThisResponse(result.issues[n])
          /\ Len(result.strategies) <= Len(batch)
          /\ Len(result.issues) <= 2 * Len(batch) + 1
          /\ result.value = result.strategies)

\* A call has returned strategies while a user is on a hike, a profile is
\* stored and an exit point has been added.
C19_Witness ==
  /\ Returned
  /\ DOMAIN activeHikes # {}
  /\ DOMAIN userProfiles # {}
  /\ Len(exitPoints) > 3
  /\ Len(result.strategies) = 2

\* A call on an inactive hike has failed.
C19_WitnessFailed ==
  /\ pc = "done"
  /\ result.error = "Hike is not active"
  /\ DOMAIN activeHikes # {}

\* C20: no step changes the name, the accessibility or the distance that
\* the store holds for an id that is registered.
C20_RegisteredExitPointsImmutable ==
  [][\A i \in 1..Len(exitPoints) :
       \E j \in 1..Len(exitPoints') :
         /\ exitPoints'[j].id = exitPoints[i].id
         /\ exitPoints'[j].name = exitPoints[i].name
         /\ exitPoints'[j].accessibility = exitPoints[i].accessibility
         /\ exitPoints'[j].distanceFromCurrent = exitPoints[i].distanceFromCurrent]_vars

\* The store holds under exit1 another exit point than the one it was
\* initialized with.
C20_Overwritten ==
  \E i \in 1..Len(exitPoints) :
    /\ exitPoints[i].id = "exit1"
    /\ exitPoints[i] # initializeExitPoints[1]

\* The followed call has got a text from the LLM.
Answered == pc = "done" /\ llmCalls = 1 /\ result.error # "LLM error"

\* C21: a getExitStrategies call makes at most one request to the LLM; when
\* the text it gets is malformed or has no valid strategy the call ends with
\* an error after that one request, and a call that has ended makes no
\* further step but its return.
C21_AtMostOneGeneration ==
  /\ [](llmCalls <= 1)
  /\ [](pc = "awaiting" => llmCalls = 1)
  /\ []((Answered /\ (ExtractionFails(responseText.text)
                        \/ \A i \in 1..Len(batch) : Rejected(i))) =>
          /\ result.status = "threw"
          /\ result.error \in MalformedErrors \cup {NoValidStrategies}
          /\ result.value = <<>>)
  /\ [][pc = "done" => (pc' = "idle" /\ llmCalls' = 0)]_vars

\* A malformed text ended the call after one request.
C21_Witness ==
  /\ Answered
  /\ responseText.text = <<"txt">>
  /\ result.error = "No JSON found in response"

\* A text without a valid strategy ended the call after one request.
C21_WitnessNoValid ==
  /\ Answered
  /\ Len(batch) = 2
  /\ result.error = NoValidStrategies

\* The hikes in the active-hike set.
ActiveHikeSet == { activeHikes[k] : k \in DOMAIN activeHikes }

\* C22: a startHike call for a user who has an active hike throws 'User is
\* already on an active hike' and leaves the active hikes as they are; for a
\* user without one it stores the new hike; and the active-hike set never
\* holds two hikes of one user id.
C22_OneActiveHikePerUser ==
  /\ [][last'.op = "startHike" =>
          IF last'.user \in DOMAIN activeHikes
          THEN /\ last'.error = "User is already on an active hike"
               /\ activeHikes' = activeHikes
          ELSE /\ last'.error = ""
               /\ DOMAIN activeHikes' = DOMAIN activeHikes \cup {last'.user}
               /\ activeHikes'[last'.user] = last'.hike
               /\ \A k \in DOMAIN activeHikes : activeHikes'[k] = activeHikes[k]]_vars
  /\ [](\A h1, h2 \in ActiveHikeSet : h1.user.id = h2.user.id => h1 = h2)
  /\ [](\A k \in DOMAIN activeHikes : activeHikes[k].user.id = k)

\* A second startHike for a user on a hike has failed and the first hike is
\* still the one stored.
C22_Witness ==
  /\ last.op = "startHike"
  /\ last.error = "User is already on an active hike"
  /\ last.user = "user1"
  /\ activeHikes["user1"].id = "hike_1000"
  /\ "user2" \in DOMAIN activeHikes

\* C23: updateLocation and endHike called with a hike whose isActive is
\* false throw 'Hike is not active', and so does getExitStrategies, before
\* any request to the LLM; the active hikes stay as they are.
C23_InactiveHikeRejected ==
  /\ [][(last'.op \in {"updateLocation", "endHike"} /\ ~last'.hike.isActive) =>
          /\ last'.error = "Hike is not active"
          /\ activeHikes' = activeHikes
          /\ llmCalls' = llmCalls]_vars
  /\ [][(pc = "idle" /\ pc' # "idle" /\ ~hike'.isActive) =>
          /\ pc' = "done"
          /\ result'.status = "threw"
          /\ result'.error = "Hike is not active"
          /\ llmCalls' = 0
          /\ activeHikes' = activeHikes]_vars
  /\ [](pc = "awaiting" => hike.isActive)

\* getExitStrategies on an inactive copy of the user's hike has failed.
C23_Witness ==
  /\ pc = "done"
  /\ ~hike.isActive
  /\ result.error = "Hike is not active"
  /\ llmCalls = 0
  /\ hike.user.id \in DOMAIN activeHikes
  /\ activeHikes[hike.user.id].id = hike.id

\* updateLocation on an inactive copy of the user's hike has failed.
C23_WitnessUpdate ==
  /\ last.op = "updateLocation"
  /\ ~last.hike.isActive
  /\ last.error = "Hike is not active"
  /\ last.user \in DOMAIN activeHikes
  /\ activeHikes[last.user].currentLocation # last.hike.currentLocation

\* endHike on an inactive copy of the user's hike has failed.
C23_WitnessEnd ==
  /\ last.op = "endHike"
  /\ ~last.hike.isActive
  /\ last.error = "Hike is not active"
  /\ last.user \in DOMAIN activeHikes

\* The latest call was an endHike that succeeded.
JustEnded == last.op = "endHike" /\ last.error = ""

\* C24: after endHike(h) has succeeded the user of h has no active hike and
\* can start one, and a call of updateLocation, endHike or getExitStrategies
\* with that same h fails with 'Hike is not active'.
C24_EndedHikeStaysEnded ==
  /\ [][(last'.op = "endHike" /\ last'.error = "") =>
          last'.user \notin DOMAIN activeHikes']_vars
  /\ [][(JustEnded /\ last'.op = "startHike" /\ last'.user = last.user) =>
          last'.error = ""]_vars
  /\ [][(JustEnded /\ last'.op \in {"updateLocation", "endHike"}
           /\ last'.hike = last.hike) =>
          /\ last'.error = "Hike is not active"
          /\ activeHikes' = activeHikes]_vars
  /\ [][(JustEnded /\ pc = "idle" /\ pc' # "idle" /\ hike' = last.hike) =>
          result'.error = "Hike is not active"]_vars

\* The hike that was ended is in the active-hike set again.
C24_EndedHikeIsBack ==
  /\ last.op = "updateLocation"
  /\ last.error = ""
  /\ activeHikes[last.user].id = last.hike.id

RejectionKinds ==
  {"not_an_object", "missing_exit_point_name", "exit_point_not_found",
   "invalid_confidence", "missing_reasoning", "logical_issues", "duplicate_exit_point"}

RejectionIssues(issues) == SelectSeq(issues, LAMBDA x : x.kind \in RejectionKinds)

\* C25: every candidate of the strategies array gets one pass, which either
\* adds one strategy and records no rejection issue or adds no strategy and
\* records exactly one rejection issue; the strategies and the rejection
\* issues together are as many as the candidates.
C25_EveryCandidateAccounted ==
  Processed =>
    /\ Len(result.log) = Len(batch)
    /\ \A i \in 1..Len(result.log) :
         LET pass == result.log[i] IN
         \/ Len(pass.strategy) = 1 /\ RejectionIssues(pass.pushed) = <<>>
         \/ Len(pass.strategy) = 0 /\ Len(RejectionIssues(pass.pushed)) = 1
    /\ Len(result.strategies) + Len(RejectionIssues(result.issues)) = Len(batch)

\* One candidate was accepted with a high-confidence issue and one for the
\* same exit point was dropped as a duplicate.
C25_Witness ==
  /\ Returned
  /\ Len(batch) = 2
  /\ Len(result.strategies) = 1
  /\ Len(result.issues) = 2
  /\ result.issues[1].kind = "unrealistic_confidence"
  /\ result.issues[2].kind = "duplicate_exit_point"

DroppedAsDuplicate(i) ==
  /\ result.log[i].strategy = <<>>
  /\ \E n \in 1..Len(result.log[i].pushed) :
       result.log[i].pushed[n].kind = "duplicate_exit_point"

\* C26 as stated: every high-confidence issue belongs to a candidate that is
\* accepted into the result.
C26_HighConfidenceOnlyOnAccepted ==
  Processed =>
    \A i \in 1..Len(result.log) : HighConfidenceIssues(i) # <<>> => Survives(i)

\* C26: every high-confidence issue belongs to a candidate that passed the
\* five rejection checks with a confidence above 0.95; that candidate is
\* accepted unless it is dropped as a duplicate of an exit point accepted
\* before it, and a dropped duplicate keeps its high-confidence issue.
C26_HighConfidenceOnPassedChecks ==
  Processed =>
    /\ Len(result.log) = Len(batch)
    /\ \A i \in 1..Len(result.log) :
         HighConfidenceIssues(i) # <<>> =>
           /\ PassesChecks(batch[i])
           /\ batch[i].confidence.n > HighConfidence
           /\ Survives(i) \/ DroppedAsDuplicate(i)
           /\ DroppedAsDuplicate(i) =>
                result.log[i].pushed =
                  <<Issue("unrealistic_confidence", batch[i].exitPointName.s, <<>>,
                          batch[i].confidence.n),
                    Issue("duplicate_exit_point", batch[i].exitPointName.s, <<>>, 0)>>

\* A candidate at 0.9501 was dropped as a duplicate and left its
\* high-confidence issue in the issues of the invocation.
C26_Witness ==
  /\ Returned
  /\ Len(batch) = 2
  /\ Survives(1)
  /\ DroppedAsDuplicate(2)
  /\ HighConfidenceIssues(1) = <<>>
  /\ Len(HighConfidenceIssues(2)) = 1
  /\ result.issues[1].kind = "unrealistic_confidence"

\* The registered exit points that carry the name of candidate c.
NamedLike(c) ==
  { k \in 1..Len(exitPoints) : exitPoints[k].name = c.exitPointName.s }

\* C27: a candidate whose name is that of a registered exit point e is
\* validated against e itself: if it is accepted its strategy holds e, and it
\* is rejected as inconsistent only when its reasoning contradicts e.
C27_ResolvableByName ==
  Processed =>
    /\ Len(result.log) = Len(batch)
    /\ \A i \in 1..Len(result.log) : \A k \in NamedLike(batch[i]) :
         /\ Survives(i) => result.log[i].strategy[1].exitPoint = exitPoints[k]
         /\ RejectedAsInconsistent(i) =>
              validateReasoning(batch[i].reasoning.s, exitPoints[k], hike) # <<>>

\* After addExitPoint(difficult_exit), a candidate named "Emergency Shelter"
\* was rejected for saying "far" of an exit point 3.5 miles away.
C27_ShadowedByFirst ==
  /\ Processed
  /\ Len(exitPoints) = 4
  /\ exitPoints[4].id = "difficult_exit"
  /\ Len(batch) = 1
  /\ batch[1].exitPointName.s = EmergencyShelter
  /\ RejectedAsInconsistent(1)
  /\ validateReasoning(batch[1].reasoning.s, exitPoints[4], hike) = <<>>

\* C28: a successful updateLocation leaves the users that have an active hike
\* the same, and leaves the id and the route of each user's recorded hike the
\* same (the id carries the start time).
C28_UpdateLocationOnlyMoves ==
  [][(last'.op = "updateLocation" /\ last'.error = "") =>
       /\ DOMAIN activeHikes' = DOMAIN activeHikes
       /\ \A u \in DOMAIN activeHikes :
            /\ activeHikes'[u].id = activeHikes[u].id
            /\ activeHikes'[u].route = activeHikes[u].route]_vars

\* updateLocation put hike_1000 in the place of the user's hike_2000.
C28_Replaced ==
  /\ last.op = "updateLocation" /\ last.error = ""
  /\ last.hike.id = "hike_1000"
  /\ activeHikes[last.user].id = "hike_1000"
  /\ DOMAIN activeHikes = {"user1", "user2"}

\* C29: every stored profile is stored under its own userId, and a
\* learnFromUserFeedback call whose response cannot be parsed leaves the
\* stored profiles as they were.
C29_ProfilesUnderOwnUserId ==
  /\ [](\A u \in DOMAIN userProfiles : userProfiles[u].userId = u)
  /\ [][(last'.op = "learnFromUserFeedback" /\ last'.error # "") =>
          userProfiles' = userProfiles]_vars

\* A response that spells the profile of user2 was stored for user1.
C29_StoredUnderAnotherUser ==
  /\ last.op = "learnFromUserFeedback" /\ last.error = ""
  /\ last.user = "user1"
  /\ userProfiles["user1"].userId = "user2"

\* A response that cannot be parsed left the profiles as they were.
C29_UnparsedLeavesProfiles ==
  [][(last'.op = "learnFromUserFeedback" /\ last'.error # "") =>
       userProfiles' = userProfiles]_vars

\* The prompt of the followed call lists the exit point.
Listed(exitPoint) ==
  \E k \in 1..Len(prompt) :
    prompt[k] = [name |-> exitPoint.name,
                 distanceFromCurrent |-> exitPoint.distanceFromCurrent,
                 accessibility |-> exitPoint.accessibility]

\* C30: whatever addExitPoint and endHike calls run while a getExitStrategies
\* call waits for the LLM, every strategy it returns holds an exit point that
\* its prompt listed, with that accessibility and distance, and the hike it is
\* returned for is still the recorded hike of its user.
C30_ReturnedForPromptAndActiveHike ==
  [][(pc = "awaiting" /\ pc' = "done" /\ result'.status = "returned") =>
       /\ \A n \in 1..Len(result'.strategies) : Listed(result'.strategies[n].exitPoint)
       /\ hike.user.id \in DOMAIN activeHikes'
       /\ activeHikes'[hike.user.id].id = hike.id]_vars

\* A returned strategy holds an exit point that was added during the wait.
C30_UnlistedExitPointReturned ==
  /\ Returned
  /\ \E n \in 1..Len(result.strategies) : ~Listed(result.strategies[n].exitPoint)

\* Strategies were returned for a hike whose user has no recorded hike.
C30_ReturnedForEndedHike ==
  /\ Returned
  /\ hike.user.id \notin DOMAIN activeHikes

============================================================================
